---- MODULE Spec2Model ----
(***************************************************************************)
(* A model of contacts.py: the rolling rate window that protects the       *)
(* People API (_rate_prune, _rate_current_total, _rate_expect_and_wait,    *)
(* _rate_record), the paginated remote lookup with its 429 retry           *)
(* (search_contacts_with_phones_google) and the row enrichment of          *)
(* process_csv with its phone reconciliation.                              *)
(*                                                                         *)
(* Time is counted in whole seconds.  Strings whose characters matter      *)
(* (phones, names, column names) are sequences of one-character strings.   *)
(***************************************************************************)
EXTENDS Integers, Sequences, FiniteSets, TLC

(***************************************************************************)
(* Program constants.                                                      *)
(***************************************************************************)
MAX_CONTACTS_PER_MINUTE == 90

\* the 60.0 of _rate_prune and _rate_expect_and_wait
WINDOW_SEC == 60

\* the 1.0 of max(1.0, ...) in _rate_expect_and_wait
MIN_SLEEP == 1

\* params["pageSize"] of search_contacts_with_phones_google
PAGE_SIZE == 5

\* range(100): the cap on the pages of one lookup
MAX_PAGES == 100

\* time.sleep(60) after a 429
RETRY_SLEEP == 60

\* the status of "quota exceeded"
HTTP_TOO_MANY == 429

\* poll_timeout_sec of _get_google_access_token_via_device_flow
POLL_TIMEOUT_SEC == 600

\* payload.get("interval", 5)
DEFAULT_INTERVAL == 5

\* the 5 added to the interval after slow_down
SLOW_DOWN_EXTRA == 5

\* digits[-9:] if len(digits) >= 9 in _normalize_phone_for_compare
NORM_DIGITS == 9

\* len(normalized_value) == 9 in _pick_display_phone_from_candidates
LOCAL_KEY_LEN == 9

(***************************************************************************)
(* Bounds of the model.                                                    *)
(***************************************************************************)
\* the callers of SpecLimiter stop starting operations after this time
MaxClock == 120

\* the longest window SpecLimiter lets _rate_record build
MaxWindow == 3

\* granularity of the passage of time
Step == 20

\* Spec: the input file has at most this many rows
MaxRows == 2

\* Spec: a lookup returns at most this many candidates
MaxCands == 2

\* SpecFetch: granularity of the passage of time
FetchStep == 30

\* SpecFetch: the service answers with at most this many short pages (1 to 4
\* results) per 60 s
MaxShort == 1

\* SpecFetch: no request is sent after this time
FetchMaxClock == 60

\* SpecFetch: the service holds at most this many pages for one query
ServerPages == 2

VARIABLES
    clock,          \* time.time()
    window,         \* _CONTACT_RATE_WINDOW: sequence of [ts, count]
    lpc,            \* position of the caller of _rate_expect_and_wait
    expected_count, \* its argument
    now,            \* its local now
    sleep_for,      \* its local sleep_for
    call,           \* what the call in progress (or the last one) saw and did
    last_total,     \* the last value _rate_current_total returned
    spc,            \* position in search_contacts_with_phones_google
    page,           \* the loop index of for _ in range(100)
    page_token,     \* whether page_token is set
    data,           \* the parsed response: [results, next], results = -1 before any
    last_resp,      \* the answer to the last request sent
    cool_start,     \* when the last 429 was received
    proto,          \* the limiter calls and requests of the page in progress
    ledger,         \* every count recorded in the last 60 s, with its time
    ppc,            \* position in process_csv
    in_header,      \* the header line of the input file, as read
    in_rows,        \* the rows csv.DictReader yields
    source,         \* the source argument
    client_id,      \* google_client_id or GOOGLE_CLIENT_ID
    token,          \* the access token, once acquired
    fieldnames,     \* the normalized header plus the appended columns
    rows,           \* list(reader), enriched in place
    idx,            \* how many rows the for loop has finished
    looked,         \* whether the last row called the searcher
    results,        \* what the searcher returned for the last row
    match_count,    \* the local match_count of the last row
    lookups,        \* every query passed to the searcher, in order
    auth_started,   \* whether credential acquisition was started
    out_file,       \* the output file: whether opened, and what was written
    err,            \* the error process_csv raised, "none" if none
    exit_code,      \* the exit status of main, -1 while running
    run,            \* SpecTwoRuns: how many runs of process_csv were started
    stub,           \* SpecTwoRuns: the answer of the service to each query
    run_slept,      \* SpecTwoRuns: whether the run in progress had to sleep
    first_out,      \* SpecTwoRuns: what the first run wrote and returned
    pure_fn,        \* SpecPure: the function called last
    pure_arg,       \* SpecPure: its arguments
    pure_ret,       \* SpecPure: what it returned
    pure_prev,      \* SpecPure: the normalizer call before the last one
    dpc,            \* position in _get_google_access_token_via_device_flow
    interval,       \* its local interval
    deadline,       \* its local deadline
    waited,         \* its local waited
    last_sleep,     \* the length of its last polling sleep
    answers,        \* what the token endpoint will answer, the last one for ever
    out,            \* SpecPages: the local out of the lookup
    svc,            \* SpecPages: how many pages the service has, and their items
    fetched         \* SpecPages: the pages received so far: [items, next]

limVars == <<clock, window, lpc, expected_count, now, sleep_for, call, last_total>>

fetchVars == <<spc, page, page_token, data, last_resp, cool_start, proto, ledger>>

csvVars == <<ppc, in_header, in_rows, source, client_id, token, fieldnames, rows,
             idx, looked, results, match_count, lookups, auth_started, out_file,
             err, exit_code>>

runVars == <<run, stub, run_slept, first_out>>

pureVars == <<pure_fn, pure_arg, pure_ret, pure_prev>>

devVars == <<dpc, interval, deadline, waited, last_sleep, answers>>

pagesVars == <<out, svc, fetched>>

\* the variables of the specifications that stand apart
auxVars == <<runVars, pureVars, devVars, pagesVars>>

\* those of them that two runs of process_csv leave untouched
sideVars == <<pureVars, devVars, pagesVars>>

\* what the limiter alone leaves untouched
notLimVars == <<fetchVars, csvVars, auxVars>>

vars == <<limVars, fetchVars, csvVars, auxVars>>

Max(a, b) == IF a >= b THEN a ELSE b

(***************************************************************************)
(* The rate window.                                                        *)
(***************************************************************************)
Entry(ts, count) == [ts |-> ts, count |-> count]

RECURSIVE RatePrune_Strict(_, _)
RatePrune_Strict(w, t) ==
    IF w # <<>> /\ Head(w).ts < t - WINDOW_SEC
    THEN RatePrune_Strict(Tail(w), t)
    ELSE w

RatePrune_PopOne(w, t) ==
    IF w # <<>> /\ Head(w).ts <= t - WINDOW_SEC THEN Tail(w) ELSE w

\* _rate_prune(now): pop from the left while the head is at or before the cutoff
RECURSIVE RatePrune(_, _)
RatePrune(w, t) ==
    IF w # <<>> /\ Head(w).ts <= t - WINDOW_SEC
    THEN RatePrune(Tail(w), t)
    ELSE w

\* sum(c for _, c in _CONTACT_RATE_WINDOW)
RECURSIVE WindowSum(_)
WindowSum(w) == IF w = <<>> THEN 0 ELSE Head(w).count + WindowSum(Tail(w))

\* the value _rate_current_total(now) returns; it also prunes the window
RateCurrentTotal(w, t) == WindowSum(RatePrune(w, t))

MustWait_AtCeiling(w, t, n) ==
    RateCurrentTotal(w, t) + Max(0, n) >= MAX_CONTACTS_PER_MINUTE

MustWait_IgnoreExpected(w, t, n) ==
    RateCurrentTotal(w, t) > MAX_CONTACTS_PER_MINUTE

\* the loop condition of _rate_expect_and_wait
MustWait(w, t, n) ==
    RateCurrentTotal(w, t) + Max(0, n) > MAX_CONTACTS_PER_MINUTE

SleepFor_Poll(w, t) == MIN_SLEEP

\* oldest_ts and sleep_for of _rate_expect_and_wait
SleepFor(w, t) ==
    LET oldest_ts == IF w # <<>> THEN Head(w).ts ELSE t
    IN  Max(MIN_SLEEP, (oldest_ts + WINDOW_SEC) - t)

RateRecord_Always(w, t, count) == Append(w, Entry(t, count))

\* _rate_record(count) at time t
RateRecord(w, t, count) ==
    IF count <= 0 THEN w ELSE Append(w, Entry(t, count))

(***************************************************************************)
(* What the claims say about the window, stated without the code's         *)
(* operators: the counts recorded with a timestamp in (lo, hi].            *)
(***************************************************************************)
RECURSIVE CountsIn(_, _, _)
CountsIn(w, lo, hi) ==
    IF w = <<>> THEN 0
    ELSE (IF lo < Head(w).ts /\ Head(w).ts <= hi THEN Head(w).count ELSE 0)
         + CountsIn(Tail(w), lo, hi)

UnexpiredTotal(w, t) == CountsIn(w, t - WINDOW_SEC, t)

(***************************************************************************)
(* _rate_expect_and_wait, in two steps: from the call to the first sleep   *)
(* (or the return), and from the end of a sleep to the next one (or the    *)
(* return).                                                                *)
(***************************************************************************)
\* lines 36-40: now, prune, the loop test, and the sleep it asks for
ExpectEnter(n) ==
    /\ lpc # "sleeping"
    /\ LET w == RatePrune(window, clock)
       IN  /\ window' = w
           /\ call' = [n |-> n,
                       total0 |-> UnexpiredTotal(window, clock),
                       entries0 |-> Len(window),
                       waits |-> IF MustWait(w, clock, n) THEN 1 ELSE 0]
           /\ IF MustWait(w, clock, n)
              THEN /\ lpc' = "sleeping"
                   /\ expected_count' = n
                   /\ now' = clock
                   /\ sleep_for' = SleepFor(w, clock)
              ELSE /\ lpc' = "returned"
                   /\ expected_count' = 0
                   /\ now' = 0
                   /\ sleep_for' = 0
    /\ last_total' = 0
    /\ UNCHANGED clock

\* lines 41-43 and the loop test again: the sleep ends after at least sleep_for
ExpectWakeStep(extra) ==
    /\ lpc = "sleeping"
    /\ LET t == clock + sleep_for + extra
           w == RatePrune(window, t)
       IN  /\ clock' = t
           /\ window' = w
           /\ IF MustWait(w, t, expected_count)
              THEN /\ lpc' = "sleeping"
                   /\ now' = t
                   /\ sleep_for' = SleepFor(w, t)
                   /\ call' = [call EXCEPT !.waits = @ + 1]
                   /\ UNCHANGED expected_count
              ELSE /\ lpc' = "returned"
                   /\ expected_count' = 0
                   /\ now' = 0
                   /\ sleep_for' = 0
                   /\ call' = call
    /\ UNCHANGED last_total

\* the same, while the clock of the model has not run out
ExpectWake(extra) ==
    /\ clock < MaxClock + WINDOW_SEC
    /\ ExpectWakeStep(extra)

(***************************************************************************)
(* SpecLimiter: a single thread calling the four limiter functions in any  *)
(* order, with any arguments, while time passes.  The locals of a call     *)
(* that returned are gone when the next operation starts.                  *)
(***************************************************************************)
RecordCounts == {-1, 0, 5, 45, 90}
ExpectCounts == {-1, 0, 5, 90, 91}
TimeSteps == {Step, 2 * Step}
Oversleep == {0, Step}

NoCall == [n |-> 0, total0 |-> 0, entries0 |-> 0, waits |-> 0]

NoFile == [opened |-> FALSE, header |-> <<>>, rows |-> <<>>]
NoRun == [file |-> NoFile, exit |-> -1, err |-> "none", slept |-> FALSE]
NoService == [last |-> -1, pattern |-> <<>>]
NoData == [results |-> -1, next |-> FALSE]
NoResp == [kind |-> "none", code |-> 0]
NoProto == [sent |-> 0, throttled |-> 0, got |-> -1, recorded |-> -1,
            req |-> <<0, FALSE>>]

\* the process at start: an empty window, no call in progress
Init ==
    /\ clock = 0
    /\ window = <<>>
    /\ lpc = "idle"
    /\ expected_count = 0
    /\ now = 0
    /\ sleep_for = 0
    /\ call = NoCall
    /\ last_total = 0
    /\ spc = "idle"
    /\ page = 0
    /\ page_token = FALSE
    /\ data = NoData
    /\ last_resp = NoResp
    /\ cool_start = 0
    /\ proto = NoProto
    /\ ledger = <<>>
    /\ ppc = "start"
    /\ in_header = <<>>
    /\ in_rows = <<>>
    /\ source = ""
    /\ client_id = ""
    /\ token = ""
    /\ fieldnames = <<>>
    /\ rows = <<>>
    /\ idx = 0
    /\ looked = FALSE
    /\ results = <<>>
    /\ match_count = 0
    /\ lookups = <<>>
    /\ auth_started = FALSE
    /\ out_file = NoFile
    /\ err = "none"
    /\ exit_code = -1
    /\ run = 0
    /\ stub = <<>>
    /\ run_slept = FALSE
    /\ first_out = NoRun
    /\ pure_fn = "none"
    /\ pure_arg = <<>>
    /\ pure_ret = <<>>
    /\ pure_prev = <<>>
    /\ dpc = "start"
    /\ interval = 0
    /\ deadline = 0
    /\ waited = 0
    /\ last_sleep = 0
    /\ answers = <<>>
    /\ out = <<>>
    /\ svc = NoService
    /\ fetched = <<>>

LimTick ==
    /\ lpc # "sleeping"
    /\ \E d \in TimeSteps :
        /\ clock + d <= MaxClock
        /\ clock' = clock + d
    /\ lpc' = "idle"
    /\ call' = NoCall
    /\ last_total' = 0
    /\ UNCHANGED <<window, expected_count, now, sleep_for, notLimVars>>

LimRecord ==
    /\ lpc # "sleeping"
    /\ Len(window) < MaxWindow
    /\ \E n \in RecordCounts :
        /\ window' = RateRecord(window, clock, n)
        /\ call' = [NoCall EXCEPT !.n = n]
    /\ lpc' = "recorded"
    /\ last_total' = 0
    /\ UNCHANGED <<clock, expected_count, now, sleep_for, notLimVars>>

LimPrune ==
    /\ lpc # "sleeping"
    /\ window' = RatePrune(window, clock)
    /\ lpc' = "pruned"
    /\ call' = NoCall
    /\ last_total' = 0
    /\ UNCHANGED <<clock, expected_count, now, sleep_for, notLimVars>>

LimCurrentTotal ==
    /\ lpc # "sleeping"
    /\ window' = RatePrune(window, clock)
    /\ last_total' = RateCurrentTotal(window, clock)
    /\ lpc' = "totalled"
    /\ call' = NoCall
    /\ UNCHANGED <<clock, expected_count, now, sleep_for, notLimVars>>

LimExpect ==
    /\ clock <= MaxClock
    /\ \E n \in ExpectCounts : ExpectEnter(n)
    /\ UNCHANGED notLimVars

LimWake ==
    /\ \E extra \in Oversleep : ExpectWake(extra)
    /\ UNCHANGED notLimVars

LimNext ==
    \/ LimTick
    \/ LimRecord
    \/ LimPrune
    \/ LimCurrentTotal
    \/ LimExpect
    \/ LimWake

SpecLimiter == Init /\ [][LimNext]_vars

\* time.sleep returns: a sleeping caller is woken
SpecLimiterFair == SpecLimiter /\ WF_vars(LimWake)

(***************************************************************************)
(* search_contacts_with_phones_google: one call after another, each a      *)
(* loop over pages.  A page is admitted by the limiter, requested (and     *)
(* requested again after each 429), and its results are recorded.          *)
(***************************************************************************)
Tokens == {"", "tok"}
ResultCounts == {0, 3, PAGE_SIZE}
HttpErrorCodes == {HTTP_TOO_MANY, 403, 500}
FetchDurations == {0, FetchStep}
FetchOversleep == {0, FetchStep}

ShortPages(l) == Len(SelectSeq(l, LAMBDA e : e.count < PAGE_SIZE))

\* what the service may answer to the request for page p
Responses(p) ==
    {r \in [kind : {"ok"}, results : ResultCounts, next : BOOLEAN, code : {0}] :
        /\ r.next => p + 1 < ServerPages
        /\ r.results \in 1..(PAGE_SIZE - 1) => ShortPages(ledger) < MaxShort}
    \cup [kind : {"http"}, results : {0}, next : {FALSE}, code : HttpErrorCodes]
    \cup [kind : {"transport"}, results : {0}, next : {FALSE}, code : {0}]

\* the entries of a log that are younger than 60 s at time t
Recent(l, t) == SelectSeq(l, LAMBDA e : e.ts > t - WINDOW_SEC)

OnHttpError_RetryFrom429(code) ==
    IF code >= HTTP_TOO_MANY THEN "retry" ELSE "raise"

\* except error.HTTPError: sleep and retry on 429, raise RuntimeError otherwise
OnHttpError(code) ==
    IF code = HTTP_TOO_MANY THEN "retry" ELSE "raise"

RecordArg_PageSize(n_results) == PAGE_SIZE

\* the argument of _rate_record: len(results)
RecordArg(n_results) == n_results

\* lines 139-149: the token check and the locals
SearchCall ==
    /\ spc = "idle"
    /\ clock <= FetchMaxClock
    /\ \E tok \in Tokens :
        IF tok = ""
        THEN spc' = "raised"
        ELSE spc' = "page"
    /\ page' = 0
    /\ page_token' = FALSE
    /\ UNCHANGED <<limVars, data, last_resp, cool_start, proto, ledger, csvVars, auxVars>>

\* lines 151-163: the top of the loop, up to the first sleep of the limiter
PageAdmit ==
    /\ spc = "page"
    /\ clock <= FetchMaxClock
    /\ ExpectEnter(PAGE_SIZE)
    /\ spc' = IF lpc' = "returned" THEN "request" ELSE "admit_wait"
    /\ proto' = NoProto
    /\ UNCHANGED <<page, page_token, data, last_resp, cool_start, ledger, csvVars, auxVars>>

\* line 163, continued: a sleep of the limiter ends
PageAdmitWake ==
    /\ spc = "admit_wait"
    /\ \E extra \in FetchOversleep : ExpectWake(extra)
    /\ spc' = IF lpc' = "returned" THEN "request" ELSE "admit_wait"
    /\ ledger' = Recent(ledger, clock')
    /\ UNCHANGED <<page, page_token, data, last_resp, cool_start, proto, csvVars, auxVars>>

\* lines 165-182: the request is sent and answered after d seconds
SendRequest ==
    /\ spc = "request"
    /\ \E d \in FetchDurations, resp \in Responses(page) :
        /\ d = 0 \/ clock + d <= FetchMaxClock
        /\ resp.kind = "http" /\ OnHttpError(resp.code) = "retry"
               => clock + d <= FetchMaxClock
        /\ clock' = clock + d
        /\ ledger' = Recent(ledger, clock + d)
        /\ CASE resp.kind = "ok" ->
                    /\ spc' = "parsed"
                    /\ data' = [results |-> resp.results, next |-> resp.next]
                    /\ last_resp' = [kind |-> "ok", code |-> 0]
                    /\ proto' = [proto EXCEPT !.sent = @ + 1,
                                              !.got = resp.results,
                                              !.req = <<page, page_token>>]
                    /\ UNCHANGED cool_start
             [] resp.kind = "http" /\ OnHttpError(resp.code) = "retry" ->
                    /\ spc' = "cooldown"
                    /\ last_resp' = [kind |-> "http", code |-> resp.code]
                    /\ cool_start' = clock + d
                    /\ proto' = [proto EXCEPT !.sent = @ + 1,
                                              !.throttled = @ + 1,
                                              !.req = <<page, page_token>>]
                    /\ UNCHANGED data
             [] resp.kind = "http" /\ OnHttpError(resp.code) = "raise" ->
                    /\ spc' = "raised"
                    /\ last_resp' = [kind |-> "http", code |-> resp.code]
                    /\ proto' = [proto EXCEPT !.sent = @ + 1,
                                              !.req = <<page, page_token>>]
                    /\ UNCHANGED <<data, cool_start>>
             [] resp.kind = "transport" ->
                    /\ spc' = "raised"
                    /\ last_resp' = [kind |-> "transport", code |-> 0]
                    /\ proto' = [proto EXCEPT !.sent = @ + 1,
                                              !.req = <<page, page_token>>]
                    /\ UNCHANGED <<data, cool_start>>
    /\ lpc' = "idle"
    /\ call' = NoCall
    /\ UNCHANGED <<window, expected_count, now, sleep_for, last_total,
                   page, page_token, csvVars, auxVars>>

\* lines 173-174: time.sleep(60), then the same request again
CooldownEnd ==
    /\ spc = "cooldown"
    /\ \E extra \in FetchOversleep : clock' = clock + RETRY_SLEEP + extra
    /\ ledger' = Recent(ledger, clock')
    /\ spc' = "request"
    /\ UNCHANGED <<window, lpc, expected_count, now, sleep_for, call, last_total,
                   page, page_token, data, last_resp, cool_start, proto, csvVars, auxVars>>

\* lines 184-209: record the results, keep the next page token, loop or return
PageDone ==
    /\ spc = "parsed"
    /\ LET n == RecordArg(data.results)
       IN  /\ window' = RateRecord(window, clock, n)
           /\ ledger' = IF n > 0 THEN Append(ledger, Entry(clock, n)) ELSE ledger
           /\ proto' = [proto EXCEPT !.recorded = n]
    /\ page_token' = data.next
    /\ IF ~data.next
       THEN /\ spc' = "done"
            /\ page' = page
       ELSE /\ page' = page + 1
            /\ spc' = IF page + 1 >= MAX_PAGES THEN "done" ELSE "page"
    /\ UNCHANGED <<clock, lpc, expected_count, now, sleep_for, call, last_total,
                   data, last_resp, cool_start, csvVars, auxVars>>

\* line 210: the call returns; its caller goes on to the next row
SearchReturn ==
    /\ spc = "done"
    /\ spc' = "idle"
    /\ page' = 0
    /\ page_token' = FALSE
    /\ data' = NoData
    /\ last_resp' = NoResp
    /\ cool_start' = 0
    /\ proto' = NoProto
    /\ UNCHANGED <<limVars, ledger, csvVars, auxVars>>

FetchNext ==
    \/ SearchCall
    \/ PageAdmit
    \/ PageAdmitWake
    \/ SendRequest
    \/ CooldownEnd
    \/ PageDone
    \/ SearchReturn

SpecFetch == Init /\ [][FetchNext]_vars

(***************************************************************************)
(* Strings.  str.strip() removes white space at both ends; lstrip of the   *)
(* byte-order mark removes leading marks ("BOM" stands for U+FEFF, which   *)
(* is not white space).                                                    *)
(***************************************************************************)
Range(f) == {f[i] : i \in DOMAIN f}

IsSpace(c) == c \in {" ", "\t", "\n", "\r"}
IsDigit(c) == c \in {"0", "1", "2", "3", "4", "5", "6", "7", "8", "9"}

RECURSIVE LStrip(_)
LStrip(s) == IF s # <<>> /\ IsSpace(Head(s)) THEN LStrip(Tail(s)) ELSE s

RECURSIVE RStrip(_)
RStrip(s) ==
    IF s # <<>> /\ IsSpace(s[Len(s)]) THEN RStrip(SubSeq(s, 1, Len(s) - 1)) ELSE s

Strip(s) == RStrip(LStrip(s))

RECURSIVE LStripBom(_)
LStripBom(s) == IF s # <<>> /\ Head(s) = "BOM" THEN LStripBom(Tail(s)) ELSE s

\* str(n) for n >= 0
RECURSIVE Str(_)
Str(n) ==
    LET d == <<"0", "1", "2", "3", "4", "5", "6", "7", "8", "9">>[(n % 10) + 1]
    IN  IF n < 10 THEN <<d>> ELSE Str(n \div 10) \o <<d>>

PHONE_JOIN == <<" ", "|", " ">>

\* PHONE_JOIN.join(phones)
RECURSIVE Join(_)
Join(phones) ==
    IF phones = <<>> THEN <<>>
    ELSE IF Len(phones) = 1 THEN phones[1]
    ELSE phones[1] \o PHONE_JOIN \o Join(Tail(phones))

(***************************************************************************)
(* The phone normalizer and the display-form selector.                     *)
(***************************************************************************)
NormalizePhone_First9(phone) ==
    LET digits == SelectSeq(phone, IsDigit)
    IN  IF Len(digits) >= NORM_DIGITS THEN SubSeq(digits, 1, NORM_DIGITS) ELSE digits

\* _normalize_phone_for_compare
NormalizePhone(phone) ==
    LET digits == SelectSeq(phone, IsDigit)
    IN  IF digits = <<>> THEN <<>>
        ELSE IF Len(digits) >= NORM_DIGITS
             THEN SubSeq(digits, Len(digits) - NORM_DIGITS + 1, Len(digits))
             ELSE digits

\* the for loop of _pick_display_phone_from_candidates: the first phone whose
\* stripped text starts with "0", or <<"none">> when there is none
RECURSIVE FirstLocal(_)
FirstLocal(phones) ==
    IF phones = <<>> THEN <<"none">>
    ELSE LET ph_stripped == Strip(Head(phones))
         IN  IF ph_stripped # <<>> /\ Head(ph_stripped) = "0"
             THEN ph_stripped
             ELSE FirstLocal(Tail(phones))

PickDisplay_KeyFirst(phones, normalized_value) ==
    IF Len(normalized_value) = LOCAL_KEY_LEN THEN <<"0">> \o normalized_value
    ELSE IF FirstLocal(phones) # <<"none">> THEN FirstLocal(phones)
    ELSE IF phones # <<>> THEN Strip(phones[1])
    ELSE <<>>

\* _pick_display_phone_from_candidates
PickDisplay(phones, normalized_value) ==
    IF FirstLocal(phones) # <<"none">> THEN FirstLocal(phones)
    ELSE IF Len(normalized_value) = LOCAL_KEY_LEN THEN <<"0">> \o normalized_value
    ELSE IF phones # <<>> THEN Strip(phones[1])
    ELSE <<>>

(***************************************************************************)
(* The reconciliation of process_csv: from the candidates of one lookup to *)
(* the phone cell and the contact_name cell.                               *)
(***************************************************************************)
\* all_phones: every phone of every candidate, in order
RECURSIVE AllPhones(_)
AllPhones(rs) ==
    IF rs = <<>> THEN <<>> ELSE Head(rs).phones \o AllPhones(Tail(rs))

RECURSIVE NormValues_KeepEmpty(_)
NormValues_KeepEmpty(phones) ==
    IF phones = <<>> THEN {}
    ELSE {NormalizePhone(Head(phones))} \cup NormValues_KeepEmpty(Tail(phones))

\* norm_values: the normalized values of the phones, the empty ones left out
RECURSIVE NormValues(_)
NormValues(phones) ==
    IF phones = <<>> THEN {}
    ELSE LET nv == NormalizePhone(Head(phones))
         IN  (IF nv # <<>> THEN {nv} ELSE {}) \cup NormValues(Tail(phones))

\* phone_cell after lines 398-422
PhoneCell(rs) ==
    IF Len(rs) = 1
    THEN (IF rs[1].phones # <<>> THEN Join(rs[1].phones) ELSE <<>>)
    ELSE IF Len(rs) > 1
    THEN LET all_phones == AllPhones(rs)
             norm_values == NormValues(all_phones)
         IN  IF Cardinality(norm_values) = 1
             THEN PickDisplay(all_phones, CHOOSE nv \in norm_values : TRUE)
             ELSE <<>>
    ELSE <<>>

ContactNameCell_FirstMatch(rs) ==
    IF Len(rs) >= 1 THEN rs[1].name ELSE <<>>

\* contact_name_cell after lines 399-407
ContactNameCell(rs) ==
    IF Len(rs) = 1 THEN rs[1].name ELSE <<>>

(***************************************************************************)
(* process_csv and main.  The searcher is the environment: it returns a    *)
(* list of candidates or raises.                                           *)
(***************************************************************************)
NAME == <<"n", "a", "m", "e">>
PHONE_NUMBER == <<"p", "h", "o", "n", "e", " ", "n", "u", "m", "b", "e", "r">>
CONTACT_NAME == <<"c", "o", "n", "t", "a", "c", "t", "_", "n", "a", "m", "e">>
MATCH_COUNT == <<"m", "a", "t", "c", "h", "_", "c", "o", "u", "n", "t">>
NOTES == <<"n", "o", "t", "e", "s">>

\* None as a value, and None as the key under which csv.DictReader keeps the
\* fields of a row beyond the last field name
NONE == <<"None">>
RESTKEY == <<"restkey">>

\* fn.strip().lstrip(BOM), BOM being U+FEFF
NormalizeField(fn) == LStripBom(Strip(fn))

NormalizeHeader(h) == [i \in 1..Len(h) |-> NormalizeField(h[i])]

HasName_Unchecked(fns) == TRUE

\* "name" in fieldnames
HasName(fns) == NAME \in Range(fns)

AddMissing_Always(fns, cols) == fns \o cols

\* lines 363-365: append the output columns that are missing
RECURSIVE AddMissing(_, _)
AddMissing(fns, cols) ==
    IF cols = <<>> THEN fns
    ELSE AddMissing(IF Head(cols) \in Range(fns) THEN fns ELSE Append(fns, Head(cols)),
                    Tail(cols))

\* (row.get(col) or "")
RowGet(row, col) ==
    IF col \in DOMAIN row /\ row[col] # NONE THEN row[col] ELSE <<>>

\* lines 423-425
WriteCells(row, phone_cell, contact_name_cell, count) ==
    [c \in DOMAIN row \cup {PHONE_NUMBER, CONTACT_NAME, MATCH_COUNT} |->
        IF c = PHONE_NUMBER THEN phone_cell
        ELSE IF c = CONTACT_NAME THEN contact_name_cell
        ELSE IF c = MATCH_COUNT THEN Str(count)
        ELSE row[c]]

\* the line csv.DictWriter writes for a row
FileRow(fns, row) == [i \in 1..Len(fns) |-> RowGet(row, fns[i])]

\* the for loop over rows is exhausted
AllRowsDone(i, rs) == i = Len(rs)

(* the inputs *)
Headers ==
    { <<NAME, NOTES>>,
      <<CONTACT_NAME, <<"BOM", "n", "a", "m", "e", " ">>>>,
      <<NOTES>>,
      <<<<"BOM", " ", "n", "a", "m", "e">>, NOTES>>,
      <<>> }

Sources == {"apple", "google", "outlook"}
ClientIds == {"", "cid"}
RowNames == { <<" ", "D", " ">>, <<"E">>, <<" ">> }

\* a row as csv.DictReader yields it under the field names fns, the first
\* n_own of which are the input's own; a long row has fields beyond them all
InputRow(fns, n_own, name, long) ==
    [c \in Range(fns) \cup (IF long THEN {RESTKEY} ELSE {}) |->
        IF c = NAME THEN name
        ELSE IF c = RESTKEY THEN <<"x">>
        ELSE IF \E i \in 1..n_own : fns[i] = c THEN <<"o">>
        ELSE IF long THEN <<"x">>
        ELSE NONE]

InputRows(fns, n_own) ==
    {InputRow(fns, n_own, name, FALSE) : name \in RowNames}
        \cup {InputRow(fns, n_own, <<>>, TRUE)}

SeqsUpTo(S, n) == UNION {[1..k -> S] : k \in 0..n}

P_LOCAL == <<"0", "5", "0", "1", "2", "3", "4", "5", "6", "7">>
P_PLUS == <<"+", "9", "7", "2", "-", "5", "0", "-", "1", "2", "3", "4", "5", "6", "7">>
P_SHORT == <<"1", "2", "3">>
P_NODIGIT == <<"n", "/", "a">>

Cand(name, phones) == [name |-> name, phones |-> phones]

\* what a searcher may return: names and phones are stripped by both searchers
CandidatePool ==
    { Cand(<<"D", "C">>, <<P_LOCAL>>),
      Cand(<<"D", "K">>, <<P_PLUS, P_NODIGIT>>),
      Cand(<<>>, <<P_NODIGIT, P_SHORT>>),
      Cand(<<"D", "n">>, <<>>) }

LookupOutcomes ==
    {[raised |-> FALSE, results |-> rs] : rs \in SeqsUpTo(CandidatePool, MaxCands)}
        \cup {[raised |-> TRUE, results |-> <<>>]}

\* an exception leaves process_csv; main prints it and exits with status 2
Raise(e) ==
    /\ ppc' = "raised"
    /\ err' = e
    /\ exit_code' = 2

\* lines 353-367: read the header, require the name column, append the
\* missing output columns, read the rows
ReadInput ==
    /\ ppc = "start"
    /\ \E h \in Headers, src \in Sources :
        LET fns == NormalizeHeader(h)
            ext == AddMissing(fns, <<PHONE_NUMBER, CONTACT_NAME, MATCH_COUNT>>)
        IN  /\ in_header' = h
            /\ source' = src
            /\ IF ~HasName(fns)
               THEN /\ Raise("no_name")
                    /\ fieldnames' = fns
                    /\ \E rs \in SeqsUpTo(InputRows(fns, Len(fns)), MaxRows) :
                           in_rows' = rs
                    /\ rows' = <<>>
               ELSE /\ fieldnames' = ext
                    /\ \E rs \in SeqsUpTo(InputRows(ext, Len(fns)), MaxRows) :
                           /\ in_rows' = rs
                           /\ rows' = rs
                    /\ ppc' = "source"
                    /\ UNCHANGED <<err, exit_code>>
    /\ UNCHANGED <<limVars, fetchVars, auxVars, client_id, token, idx, looked, results,
                   match_count, lookups, auth_started, out_file>>

\* lines 370-382 and 393-394: choose the searcher; for google the client id
\* is the argument or the environment's GOOGLE_CLIENT_ID, possibly neither
ChooseSource ==
    /\ ppc = "source"
    /\ IF source = "apple"
       THEN /\ ppc' = "rows"
            /\ UNCHANGED <<err, exit_code, auth_started, client_id>>
       ELSE IF source = "google"
       THEN \E cid \in ClientIds :
            /\ client_id' = cid
            /\ IF cid = ""
               THEN /\ Raise("no_client_id")
                    /\ UNCHANGED auth_started
               ELSE /\ ppc' = "auth"
                    /\ auth_started' = TRUE
                    /\ UNCHANGED <<err, exit_code>>
       ELSE /\ Raise("bad_source")
            /\ UNCHANGED <<auth_started, client_id>>
    /\ UNCHANGED <<limVars, fetchVars, auxVars, in_header, in_rows, source, token,
                   fieldnames, rows, idx, looked, results, match_count, lookups,
                   out_file>>

\* lines 383-392: _get_google_access_token_via_device_flow returns or raises
AcquireToken ==
    /\ ppc = "auth"
    /\ \E ok \in BOOLEAN :
        IF ok
        THEN /\ token' = "tok"
             /\ ppc' = "rows"
             /\ UNCHANGED <<err, exit_code>>
        ELSE /\ Raise("auth_failed")
             /\ UNCHANGED token
    /\ UNCHANGED <<limVars, fetchVars, auxVars, in_header, in_rows, source, client_id,
                   fieldnames, rows, idx, looked, results, match_count, lookups,
                   auth_started, out_file>>

\* lines 396-425: one iteration of the for loop
ProcessRow ==
    /\ ppc = "rows"
    /\ idx < Len(rows)
    /\ LET row == rows[idx + 1]
           query == Strip(RowGet(row, NAME))
       IN  IF query = <<>>
           THEN /\ looked' = FALSE
                /\ results' = <<>>
                /\ match_count' = 0
                /\ rows' = [rows EXCEPT ![idx + 1] = WriteCells(row, <<>>, <<>>, 0)]
                /\ idx' = idx + 1
                /\ UNCHANGED <<ppc, lookups, err, exit_code>>
           ELSE \E o \in LookupOutcomes :
                /\ looked' = TRUE
                /\ lookups' = Append(lookups, query)
                /\ results' = o.results
                /\ IF o.raised
                   THEN /\ Raise("lookup")
                        /\ UNCHANGED <<match_count, rows, idx>>
                   ELSE /\ match_count' = Len(o.results)
                        /\ rows' = [rows EXCEPT ![idx + 1] =
                               WriteCells(row, PhoneCell(o.results),
                                          ContactNameCell(o.results), Len(o.results))]
                        /\ idx' = idx + 1
                        /\ UNCHANGED <<ppc, err, exit_code>>
    /\ UNCHANGED <<limVars, fetchVars, auxVars, in_header, in_rows, source, client_id, token,
                   fieldnames, auth_started, out_file>>

\* lines 427-430 and 475: write the header and the rows; DictWriter raises
\* ValueError at the first row that has a key outside the field names
WriteOutput ==
    /\ ppc = "rows"
    /\ AllRowsDone(idx, rows)
    /\ LET bad == {i \in 1..Len(rows) : ~(DOMAIN rows[i] \subseteq Range(fieldnames))}
           n == IF bad = {} THEN Len(rows)
                ELSE (CHOOSE i \in bad : \A j \in bad : i <= j) - 1
       IN  /\ out_file' = [opened |-> TRUE, header |-> fieldnames,
                           rows |-> [i \in 1..n |-> FileRow(fieldnames, rows[i])]]
           /\ IF bad = {}
              THEN /\ ppc' = "done"
                   /\ exit_code' = 0
                   /\ UNCHANGED err
              ELSE Raise("write")
    /\ UNCHANGED <<limVars, fetchVars, auxVars, in_header, in_rows, source, client_id, token,
                   fieldnames, rows, idx, looked, results, match_count, lookups,
                   auth_started>>

Next ==
    \/ ReadInput
    \/ ChooseSource
    \/ AcquireToken
    \/ ProcessRow
    \/ WriteOutput

Spec == Init /\ [][Next]_vars

(***************************************************************************)
(* SpecTwoRuns: process_csv run twice by one process on the same input,    *)
(* source google, against a service that answers every query the same way *)
(* each time.  The window holds what earlier lookups of the process left   *)
(* in it; sleeps last as long as asked or longer; the service may answer   *)
(* 429 before it answers.  Every lookup has a single page.                 *)
(***************************************************************************)
\* the process recorded at most this many counts before a run
MaxPrefill == 1

\* the service throttles at most this many requests of one run
MaxThrottled == 1

PrefillCounts == {45, MAX_CONTACTS_PER_MINUTE}

StubQueries == {Strip(name) : name \in RowNames} \ {<<>>}

StubAnswers ==
    { [raised |-> TRUE, results |-> <<>>],
      [raised |-> FALSE, results |-> <<Cand(<<"D", "K">>, <<P_PLUS, P_NODIGIT>>)>>],
      [raised |-> FALSE, results |-> <<Cand(<<"D", "C">>, <<P_LOCAL>>),
                                       Cand(<<"D", "K">>, <<P_PLUS, P_NODIGIT>>)>>] }

TwoHeaders == {<<CONTACT_NAME, <<"BOM", "n", "a", "m", "e", " ">>>>}

LookupResult_DropAfterWait(answer, waits) == IF waits > 0 THEN <<>> ELSE answer

\* lines 184-204: the results are built from the parsed payload alone
LookupResult(answer, waits) == answer

\* an earlier lookup of the process recorded a count
TwoPrefill ==
    /\ ppc = "start"
    /\ run < 2
    /\ Len(window) < MaxPrefill
    /\ \E n \in PrefillCounts, d \in {0, Step} :
        /\ clock' = clock + d
        /\ window' = RateRecord(window, clock + d, n)
    /\ UNCHANGED <<sideVars, lpc, expected_count, now, sleep_for, call, last_total,
                   fetchVars, csvVars, runVars>>

\* lines 353-394: the input is read (the same for both runs), the token is
\* acquired
TwoStart ==
    /\ ppc = "start"
    /\ run < 2
    /\ IF run = 0
       THEN \E h \in TwoHeaders, st \in [StubQueries -> StubAnswers] :
            LET fns == NormalizeHeader(h)
                ext == AddMissing(fns, <<PHONE_NUMBER, CONTACT_NAME, MATCH_COUNT>>)
            IN  /\ in_header' = h
                /\ stub' = st
                /\ fieldnames' = ext
                /\ \E rs \in SeqsUpTo(InputRows(ext, Len(fns)), MaxRows) :
                       /\ in_rows' = rs
                       /\ rows' = rs
       ELSE /\ rows' = in_rows
            /\ UNCHANGED <<in_header, stub, fieldnames, in_rows>>
    /\ run' = run + 1
    /\ run_slept' = FALSE
    /\ source' = "google"
    /\ client_id' = "cid"
    /\ token' = "tok"
    /\ auth_started' = TRUE
    /\ ppc' = "rows"
    /\ UNCHANGED <<sideVars, limVars, fetchVars, idx, looked, results, match_count, lookups,
                   out_file, err, exit_code, first_out>>

\* lines 397-401 and 423-425: a row whose trimmed name is empty
TwoEmptyRow ==
    /\ run > 0
    /\ ppc = "rows"
    /\ spc = "idle"
    /\ idx < Len(rows)
    /\ Strip(RowGet(rows[idx + 1], NAME)) = <<>>
    /\ looked' = FALSE
    /\ results' = <<>>
    /\ match_count' = 0
    /\ rows' = [rows EXCEPT ![idx + 1] = WriteCells(rows[idx + 1], <<>>, <<>>, 0)]
    /\ idx' = idx + 1
    /\ UNCHANGED <<sideVars, limVars, fetchVars, runVars, ppc, in_header, in_rows, source,
                   client_id, token, fieldnames, lookups, auth_started, out_file,
                   err, exit_code>>

\* lines 402 and 163: the searcher is called and asks the limiter for a page
TwoAdmit ==
    /\ run > 0
    /\ ppc = "rows"
    /\ spc = "idle"
    /\ idx < Len(rows)
    /\ Strip(RowGet(rows[idx + 1], NAME)) # <<>>
    /\ ExpectEnter(PAGE_SIZE)
    /\ spc' = IF lpc' = "returned" THEN "request" ELSE "admit_wait"
    /\ run_slept' = (run_slept \/ lpc' = "sleeping")
    /\ lookups' = Append(lookups, Strip(RowGet(rows[idx + 1], NAME)))
    /\ looked' = TRUE
    /\ UNCHANGED <<sideVars, page, page_token, data, last_resp, cool_start, proto, ledger,
                   run, stub, first_out, ppc, in_header, in_rows, source,
                   client_id, token, fieldnames, rows, idx, results, match_count,
                   auth_started, out_file, err, exit_code>>

\* line 163, continued: a sleep of the limiter ends
TwoAdmitWake ==
    /\ run > 0
    /\ spc = "admit_wait"
    /\ \E extra \in Oversleep : ExpectWake(extra)
    /\ spc' = IF lpc' = "returned" THEN "request" ELSE "admit_wait"
    /\ UNCHANGED <<sideVars, page, page_token, data, last_resp, cool_start, proto, ledger,
                   csvVars, runVars>>

\* lines 165-174: the service answers 429
TwoThrottled ==
    /\ run > 0
    /\ spc = "request"
    /\ proto.throttled < MaxThrottled
    /\ spc' = "cooldown"
    /\ cool_start' = clock
    /\ proto' = [proto EXCEPT !.throttled = @ + 1]
    /\ run_slept' = TRUE
    /\ UNCHANGED <<sideVars, limVars, page, page_token, data, last_resp, ledger, csvVars,
                   run, stub, first_out>>

\* lines 173-174: time.sleep(60), then the same request again
TwoCooldownEnd ==
    /\ run > 0
    /\ spc = "cooldown"
    /\ \E extra \in Oversleep : clock' = clock + RETRY_SLEEP + extra
    /\ spc' = "request"
    /\ UNCHANGED <<sideVars, window, lpc, expected_count, now, sleep_for, call, last_total,
                   page, page_token, data, last_resp, cool_start, proto, ledger,
                   csvVars, runVars>>

\* lines 165-210 and 403-425: the service answers the query as it always
\* does; the lookup raises, or records its results and returns them, and the
\* row is reconciled
TwoAnswer ==
    /\ run > 0
    /\ spc = "request"
    /\ spc' = "idle"
    /\ LET row == rows[idx + 1]
           answer == stub[Strip(RowGet(row, NAME))]
           rs == LookupResult(answer.results, call.waits)
       IN  IF answer.raised
           THEN /\ Raise("lookup")
                /\ results' = <<>>
                /\ UNCHANGED <<window, match_count, rows, idx>>
           ELSE /\ window' = RateRecord(window, clock, RecordArg(Len(rs)))
                /\ results' = rs
                /\ match_count' = Len(rs)
                /\ rows' = [rows EXCEPT ![idx + 1] =
                       WriteCells(row, PhoneCell(rs), ContactNameCell(rs), Len(rs))]
                /\ idx' = idx + 1
                /\ UNCHANGED <<ppc, err, exit_code>>
    /\ lpc' = "idle"
    /\ call' = NoCall
    /\ UNCHANGED <<sideVars, clock, expected_count, now, sleep_for, last_total, page,
                   page_token, data, last_resp, cool_start, proto, ledger,
                   runVars, in_header, in_rows, source, client_id, token,
                   fieldnames, looked, lookups, auth_started, out_file>>

\* the first run is over: the process starts process_csv again
TwoRestart ==
    /\ run = 1
    /\ ppc \in {"done", "raised"}
    /\ first_out' = [file |-> out_file, exit |-> exit_code, err |-> err,
                     slept |-> run_slept]
    /\ ppc' = "start"
    /\ rows' = <<>>
    /\ idx' = 0
    /\ looked' = FALSE
    /\ results' = <<>>
    /\ match_count' = 0
    /\ lookups' = <<>>
    /\ out_file' = NoFile
    /\ err' = "none"
    /\ exit_code' = -1
    /\ proto' = NoProto
    /\ UNCHANGED <<sideVars, limVars, spc, page, page_token, data, last_resp, cool_start,
                   ledger, run, stub, run_slept, in_header, in_rows, source,
                   client_id, token, fieldnames, auth_started>>

TwoNext ==
    \/ TwoPrefill
    \/ TwoStart
    \/ TwoEmptyRow
    \/ TwoAdmit
    \/ TwoAdmitWake
    \/ TwoThrottled
    \/ TwoCooldownEnd
    \/ TwoAnswer
    \/ WriteOutput
    \/ TwoRestart

SpecTwoRuns == Init /\ [][TwoNext]_vars

(***************************************************************************)
(* SpecPure: the phone normalizer and the display-form selector called     *)
(* with arguments of every shape, one call after another.                  *)
(***************************************************************************)
\* the selector is called with at most this many phones
MaxPick == 2

P_INTL == <<"9", "7", "2", "5", "0", "1", "2", "3", "4", "5", "6", "7">>

\* raw phone strings: a prefix, a body and a suffix
RawPrefixes ==
    { <<>>, <<"+", "9", "7", "2", "-">>, <<"0">>, <<"0", "0", "9", "7", "2", " ">>,
      <<"(", "1", ")">> }

RawBodies ==
    { <<"5", "0", "1", "2", "3", "4", "5", "6", "7">>,
      <<"5", "0", "-", "1", "2", "3", " ", "4", "5", "6", "7">>,
      <<"5", "0", "1", "2", "3", "4", "5", "6", "8">>,
      <<"1", "2", "3", "4", "5", "6", "7", "8">>,
      <<"1", "2", "3">>,
      <<"n", "/", "a">>,
      <<>> }

RawSuffixes == { <<>>, <<" ">>, <<"x", "9">> }

RawPhones == {a \o b \o c : a \in RawPrefixes, b \in RawBodies, c \in RawSuffixes}

PickPhones ==
    { <<" ", "0", "5", "0", "1", "2", "3", "4", "5", "6", "7", " ">>,
      P_INTL,
      <<"\t", "0">>,
      <<" ", "+", "9", "7", "2", " ">>,
      <<>> }

PickKeys ==
    { <<"5", "0", "1", "2", "3", "4", "5", "6", "7">>, <<"1", "2", "3">>, <<>> }

\* _normalize_phone_for_compare(phone) is called and returns
NormalizeCall ==
    /\ \E phone \in RawPhones :
        /\ pure_arg' = <<phone>>
        /\ pure_ret' = NormalizePhone(phone)
    /\ pure_fn' = "normalize"
    /\ pure_prev' = IF pure_fn = "normalize" THEN <<pure_arg[1], pure_ret>> ELSE <<>>
    /\ UNCHANGED <<limVars, fetchVars, csvVars, runVars, devVars, pagesVars>>

\* _pick_display_phone_from_candidates(phones, normalized_value) is called
\* and returns
PickCall ==
    /\ \E phones \in SeqsUpTo(PickPhones, MaxPick), key \in PickKeys :
        /\ pure_arg' = <<phones, key>>
        /\ pure_ret' = PickDisplay(phones, key)
    /\ pure_fn' = "pick"
    /\ pure_prev' = <<>>
    /\ UNCHANGED <<limVars, fetchVars, csvVars, runVars, devVars, pagesVars>>

PureNext ==
    \/ NormalizeCall
    \/ PickCall

SpecPure == Init /\ [][PureNext]_vars

(***************************************************************************)
(* SpecDevice: _get_google_access_token_via_device_flow.  The device-code  *)
(* endpoint answers anything; the token endpoint answers a sequence of     *)
(* responses and then its last response for ever.                          *)
(***************************************************************************)
\* the answers of the token endpoint differ for at most this many polls
MaxScript == 2

\* payload.get("interval"): absent (the empty sequence), or a number
Intervals == {<<>>, <<-1>>, <<0>>, <<2>>, <<5>>}

\* payload.get("expires_in"): absent (the empty sequence), or a number
ExpiresIn == {<<>>, <<-1>>, <<0>>, <<10>>, <<20>>}

TokenAnswers ==
    {"authorization_pending", "slow_down", "no_token", "token", "access_denied",
     "other_error", "transport"}

Scripts == UNION {[1..k -> TokenAnswers] : k \in 1..MaxScript}

\* lines 269-270 and 282
IntervalOf(i) == IF i = <<>> THEN DEFAULT_INTERVAL ELSE i[1]

DeadlineOf(e) ==
    LET expires_in == IF e = <<>> THEN POLL_TIMEOUT_SEC ELSE e[1]
    IN  IF expires_in > 0 THEN expires_in ELSE POLL_TIMEOUT_SEC

\* lines 313-318 and 338-339: the sleep asked for after an answer
PollSleep(answer, i) ==
    IF answer = "slow_down" THEN i + SLOW_DOWN_EXTRA ELSE i

\* lines 228-283: the device code is asked for
DevStart ==
    /\ dpc = "start"
    /\ \E outcome \in {"http_error", "transport", "incomplete", "ok"} :
        IF outcome = "ok"
        THEN \E i \in Intervals, e \in ExpiresIn, sc \in Scripts :
             /\ interval' = IntervalOf(i)
             /\ deadline' = DeadlineOf(e)
             /\ answers' = sc
             /\ dpc' = "poll"
        ELSE /\ dpc' = "raised"
             /\ UNCHANGED <<interval, deadline, answers>>
    /\ UNCHANGED <<waited, last_sleep>>
    /\ UNCHANGED <<limVars, fetchVars, csvVars, runVars, pureVars, pagesVars>>

\* lines 284-341: the loop test and one iteration of the polling loop;
\* time.sleep raises ValueError when asked for a negative time
DevPoll ==
    /\ dpc = "poll"
    /\ IF waited > deadline
       THEN /\ dpc' = "raised"
            /\ UNCHANGED <<waited, last_sleep, answers>>
       ELSE LET answer == Head(answers)
                sleep == PollSleep(answer, interval)
            IN  /\ answers' = IF Len(answers) > 1 THEN Tail(answers) ELSE answers
                /\ IF answer \in {"authorization_pending", "slow_down", "no_token"}
                   THEN IF sleep < 0
                        THEN /\ dpc' = "raised"
                             /\ UNCHANGED <<waited, last_sleep>>
                        ELSE /\ waited' = waited + sleep
                             /\ last_sleep' = sleep
                             /\ dpc' = "poll"
                   ELSE /\ dpc' = IF answer = "token" THEN "returned" ELSE "raised"
                        /\ UNCHANGED <<waited, last_sleep>>
    /\ UNCHANGED <<interval, deadline>>
    /\ UNCHANGED <<limVars, fetchVars, csvVars, runVars, pureVars, pagesVars>>

DevNext ==
    \/ DevStart
    \/ DevPoll

SpecDevice == Init /\ [][DevNext]_vars

\* the token endpoint answers every request: urlopen has a timeout of 20 s
SpecDeviceFair == SpecDevice /\ WF_vars(DevPoll)

(***************************************************************************)
(* SpecPages: one call of search_contacts_with_phones_google against a     *)
(* service that holds a given number of pages, or pages without end, with  *)
(* given items; a request may also be throttled or fail.                   *)
(***************************************************************************)
\* the service throttles at most this many requests of the call
Max429 == 2

\* the pages whose requests the service may throttle
BusyPages == {0, 43, 99}

\* an item of "results": the displayName of each of its names and the value
\* of each of its phoneNumbers
Item(names, values) == [names |-> names, values |-> values]

ITEM_FULL == Item(<<<<" ", "D">>>>, <<<<" ", "0", "5", "0", " ">>>>)
ITEM_PHONE_ONLY == Item(<<>>, <<<<"1">>>>)
ITEM_EMPTY == Item(<<<<>>>>, <<>>)
ITEM_NAME_ONLY == Item(<<<<>>, <<"E">>>>, <<<<>>>>)
ITEM_BLANK_NAME == Item(<<<<" ">>>>, <<>>)
ITEM_BLANK_PHONE == Item(<<>>, <<<<" ">>>>)

\* the items of the pages of the service, page after page and over again
Patterns ==
    { << <<ITEM_FULL>>, <<ITEM_EMPTY, ITEM_PHONE_ONLY>>, <<>> >>,
      << <<ITEM_NAME_ONLY, ITEM_EMPTY>>, <<ITEM_FULL, ITEM_PHONE_ONLY>>,
         <<ITEM_BLANK_NAME, ITEM_BLANK_PHONE>> >> }

\* how many pages the service holds; 0 stands for pages without end
ServiceLengths == {0, 1, 3, MAX_PAGES}

\* lines 189-196: the display name of an item
RECURSIVE FirstTruthy(_)
FirstTruthy(names) ==
    IF names = <<>> THEN <<>>
    ELSE IF Head(names) # <<>> THEN Strip(Head(names))
    ELSE FirstTruthy(Tail(names))

DisplayName(names) ==
    IF FirstTruthy(names) = <<>> /\ names # <<>>
    THEN Strip(names[1])
    ELSE FirstTruthy(names)

\* lines 198-202: the phones of an item
RECURSIVE PhonesList(_)
PhonesList(values) ==
    IF values = <<>> THEN <<>>
    ELSE (IF Head(values) # <<>> THEN <<Strip(Head(values))>> ELSE <<>>)
         \o PhonesList(Tail(values))

KeepItem_NamedOnly(display_name, phones_list) == display_name # <<>>

\* line 204
KeepItem(display_name, phones_list) == display_name # <<>> \/ phones_list # <<>>

\* lines 186-205: the candidates that the items of one page add to out
RECURSIVE PageCandidates(_)
PageCandidates(items) ==
    IF items = <<>> THEN <<>>
    ELSE LET display_name == DisplayName(Head(items).names)
             phones_list == PhonesList(Head(items).values)
         IN  (IF KeepItem(display_name, phones_list)
              THEN <<Cand(display_name, phones_list)>>
              ELSE <<>>) \o PageCandidates(Tail(items))

LoopEnds_OneMore(p) == p >= MAX_PAGES

\* for _ in range(100): the iteration with index p was the last one
LoopEnds(p) == p + 1 >= MAX_PAGES

\* what the service answers to the request for page p
ServicePage(p) ==
    [items |-> svc.pattern[(p % Len(svc.pattern)) + 1],
     next |-> (svc.last = 0 \/ p + 1 < svc.last)]

\* lines 139-149: the call, the token check and the locals
PgCall ==
    /\ spc = "idle"
    /\ svc = NoService
    /\ \E tok \in Tokens, n \in ServiceLengths, pat \in Patterns :
        /\ svc' = [last |-> n, pattern |-> pat]
        /\ spc' = IF tok = "" THEN "raised" ELSE "page"
    /\ page' = 0
    /\ page_token' = FALSE
    /\ out' = <<>>
    /\ fetched' = <<>>
    /\ proto' = NoProto
    /\ UNCHANGED <<limVars, data, last_resp, cool_start, ledger, csvVars, runVars,
                   pureVars, devVars>>

\* lines 151-163: the top of the loop, up to the first sleep of the limiter
PgAdmit ==
    /\ svc # NoService
    /\ spc = "page"
    /\ ExpectEnter(PAGE_SIZE)
    /\ spc' = IF lpc' = "returned" THEN "request" ELSE "admit_wait"
    /\ UNCHANGED <<page, page_token, data, last_resp, cool_start, proto, ledger,
                   csvVars, auxVars>>

\* line 163, continued: a sleep of the limiter ends
PgAdmitWake ==
    /\ svc # NoService
    /\ spc = "admit_wait"
    /\ \E extra \in Oversleep : ExpectWakeStep(extra)
    /\ spc' = IF lpc' = "returned" THEN "request" ELSE "admit_wait"
    /\ UNCHANGED <<page, page_token, data, last_resp, cool_start, proto, ledger,
                   csvVars, auxVars>>

\* lines 165-174: the request is answered 429
PgThrottled ==
    /\ svc # NoService
    /\ spc = "request"
    /\ page \in BusyPages
    /\ proto.throttled < Max429
    /\ OnHttpError(HTTP_TOO_MANY) = "retry"
    /\ spc' = "cooldown"
    /\ cool_start' = clock
    /\ last_resp' = [kind |-> "http", code |-> HTTP_TOO_MANY]
    /\ proto' = [proto EXCEPT !.throttled = @ + 1]
    /\ UNCHANGED <<limVars, page, page_token, data, ledger, csvVars, auxVars>>

\* lines 173-174: time.sleep(60), then the same request again
PgCooldownEnd ==
    /\ svc # NoService
    /\ spc = "cooldown"
    /\ clock' = clock + RETRY_SLEEP
    /\ spc' = "request"
    /\ UNCHANGED <<window, lpc, expected_count, now, sleep_for, call, last_total,
                   page, page_token, data, last_resp, cool_start, proto, ledger,
                   csvVars, auxVars>>

\* lines 175-182: another HTTP error status, or no answer at all
PgFail ==
    /\ svc # NoService
    /\ spc = "request"
    /\ \E resp \in {[kind |-> "http", code |-> 500], [kind |-> "transport", code |-> 0]} :
        last_resp' = resp
    /\ spc' = "raised"
    /\ UNCHANGED <<limVars, page, page_token, data, cool_start, proto, ledger,
                   csvVars, auxVars>>

\* lines 165-209: the page is received and recorded, its items are added to
\* out, and the loop goes on or ends
PgAnswer ==
    /\ svc # NoService
    /\ spc = "request"
    /\ LET resp == ServicePage(page)
       IN  /\ fetched' = Append(fetched, resp)
           /\ window' = RateRecord(window, clock, RecordArg(Len(resp.items)))
           /\ out' = out \o PageCandidates(resp.items)
           /\ page_token' = resp.next
           /\ data' = [results |-> Len(resp.items), next |-> resp.next]
           /\ IF ~resp.next \/ LoopEnds(page)
              THEN /\ spc' = "done"
                   /\ page' = page
              ELSE /\ spc' = "page"
                   /\ page' = page + 1
    /\ last_resp' = [kind |-> "ok", code |-> 0]
    /\ lpc' = "idle"
    /\ call' = NoCall
    /\ UNCHANGED <<clock, expected_count, now, sleep_for, last_total, cool_start,
                   proto, ledger, csvVars, runVars, pureVars, devVars, svc>>

PgNext ==
    \/ PgCall
    \/ PgAdmit
    \/ PgAdmitWake
    \/ PgThrottled
    \/ PgCooldownEnd
    \/ PgFail
    \/ PgAnswer

SpecPages == Init /\ [][PgNext]_vars

\* every sleep ends and every request is answered or times out
SpecPagesFair == SpecPages /\ WF_vars(PgNext)

(***************************************************************************)
(* Claims about the limiter, checked under SpecLimiter.                    *)
(***************************************************************************)
InCall == lpc \in {"sleeping", "returned"}

\* C4: a call of _rate_expect_and_wait(n) made when the counts younger than
\* 60 s plus max(0, n) are at most 90 returns without sleeping at all.
C4_NonBlockingAdmission ==
    (InCall /\ call.total0 + Max(0, call.n) <= MAX_CONTACTS_PER_MINUTE)
        => (lpc = "returned" /\ call.waits = 0)

\* a call admitted exactly at the ceiling, over a window that is not empty
C4_Witness ==
    /\ lpc = "returned"
    /\ call.total0 > 0
    /\ call.total0 + Max(0, call.n) = MAX_CONTACTS_PER_MINUTE
    /\ call.waits = 0

\* C5: a call made when the unexpired total plus n exceeds 90 sleeps; every
\* sleep ends no earlier than the oldest entry's timestamp + 60 s, the prune
\* after it evicts at least that entry, and on return the unexpired total
\* plus n is at most 90.
C5_BlockingAdmission ==
    /\ []((InCall /\ call.total0 + Max(0, call.n) > MAX_CONTACTS_PER_MINUTE)
            => call.waits >= 1)
    /\ []((lpc = "returned")
            => UnexpiredTotal(window, clock) + Max(0, call.n)
                   <= MAX_CONTACTS_PER_MINUTE)
    /\ [][(lpc = "sleeping" /\ window # <<>>)
            => /\ clock' >= Head(window).ts + WINDOW_SEC
               /\ Len(window') < Len(window)
               /\ \A i \in 1..Len(window') :
                      window'[i] = window[i + Len(window) - Len(window')]]_vars

\* a call that had to sleep twice before it was admitted
C5_Witness ==
    /\ lpc = "returned"
    /\ call.total0 + Max(0, call.n) > MAX_CONTACTS_PER_MINUTE
    /\ call.waits >= 2
    /\ window # <<>>

\* C6: for n <= 90, _rate_expect_and_wait(n) sleeps at most once per entry
\* the window held at the call, and returns (given that every sleep ends).
C6_LimiterTermination ==
    /\ [](call.n <= MAX_CONTACTS_PER_MINUTE => call.waits <= call.entries0)
    /\ ((lpc = "sleeping" /\ expected_count <= MAX_CONTACTS_PER_MINUTE)
            ~> (lpc = "returned"))

\* a call that slept once for each of several entries and then returned
C6_Witness ==
    /\ lpc = "returned"
    /\ call.n <= MAX_CONTACTS_PER_MINUTE
    /\ call.entries0 >= 2
    /\ call.waits = call.entries0

(***************************************************************************)
(* Claims about the remote lookup, checked under SpecFetch.                *)
(***************************************************************************)
\* C1: at every instant the counts recorded in the last 60 s sum to at most
\* 90, when every page is fetched as _rate_expect_and_wait(pageSize), the
\* request, _rate_record(number of results <= pageSize).
C1_RateCeiling ==
    CountsIn(ledger, clock - WINDOW_SEC, clock) <= MAX_CONTACTS_PER_MINUTE

\* the ceiling is reached again after the first minute's entries have expired,
\* with a short page among the recorded ones
C1_Witness ==
    /\ CountsIn(ledger, clock - WINDOW_SEC, clock) >= MAX_CONTACTS_PER_MINUTE - 2
    /\ ShortPages(ledger) >= 1
    /\ clock >= WINDOW_SEC
    /\ spc = "done"

\* every response received has been recorded, with its number of results,
\* before anything else is requested
RecordedBeforeNext ==
    /\ proto.got # proto.recorded => spc = "parsed"
    /\ (spc \in {"page", "done"} /\ proto.got > 0)
           => (window # <<>> /\ window[Len(window)] = Entry(clock, proto.got))

\* C7 as stated: every request, a re-send after a 429 included, has its own
\* _rate_expect_and_wait call before it, and every successful response is
\* followed by _rate_record(number of results) before the next request.
C7_AdmissionPerRequest ==
    /\ proto.sent <= 1
    /\ RecordedBeforeNext

\* C7 as amended: one _rate_expect_and_wait call per page, directly before
\* the page's first request; each further request of the page follows a 429
\* and its cooldown, with no new limiter call; every successful response is
\* followed by _rate_record(number of results) before the next request.
C7_AdmissionPerPage ==
    /\ proto.sent <= proto.throttled + 1
    /\ spc = "request" => (proto.sent = proto.throttled /\ lpc # "sleeping")
    /\ (spc = "request" /\ proto.sent = 0) => lpc = "returned"
    /\ RecordedBeforeNext

\* a page that was requested twice and whose results were then recorded
C7_Witness ==
    /\ spc = "done"
    /\ proto.sent >= 2
    /\ proto.got > 0
    /\ proto.recorded = proto.got

\* C8: a 429 leads to a 60 s sleep and then the same request again; any
\* other HTTP error status and any transport failure raise at once, and
\* nothing is requested after that.
C8_ThrottlingRetry ==
    /\ [](last_resp.code = HTTP_TOO_MANY
            => /\ spc \in {"cooldown", "request"}
               /\ proto.req = <<page, page_token>>)
    /\ [](spc = "cooldown" => last_resp.code = HTTP_TOO_MANY)
    /\ []((spc = "request" /\ last_resp.code = HTTP_TOO_MANY)
            => clock >= cool_start + RETRY_SLEEP)
    /\ []((last_resp.kind = "transport"
             \/ (last_resp.kind = "http" /\ last_resp.code # HTTP_TOO_MANY))
            => spc = "raised")
    /\ [][spc # "raised"]_vars

\* a request throttled twice and then refused with another status
C8_Witness ==
    /\ spc = "raised"
    /\ proto.throttled >= 2
    /\ last_resp = [kind |-> "http", code |-> 500]

(***************************************************************************)
(* Claims about process_csv, checked under Spec.                           *)
(***************************************************************************)
\* the row written last, when the last iteration of the loop completed
RowWritten == idx > 0 /\ err # "lookup"

\* the number of candidates of the row written last
Matches == IF looked THEN Len(results) ELSE 0

\* C2: for the row just written, match_count is the number of candidates;
\* 0 candidates give an empty phone cell and an empty contact_name cell, one
\* candidate gives its display name as contact_name, more than one give an
\* empty contact_name; the rows written earlier keep these shapes.
C2_ReconciliationTriple ==
    /\ RowWritten =>
          /\ rows[idx][MATCH_COUNT] = Str(Matches)
          /\ Matches = 0 =>
                (rows[idx][PHONE_NUMBER] = <<>> /\ rows[idx][CONTACT_NAME] = <<>>)
          /\ Matches = 1 => rows[idx][CONTACT_NAME] = results[1].name
          /\ Matches > 1 => rows[idx][CONTACT_NAME] = <<>>
    /\ \A j \in 1..idx :
          /\ rows[j][MATCH_COUNT] = <<"0">> =>
                (rows[j][PHONE_NUMBER] = <<>> /\ rows[j][CONTACT_NAME] = <<>>)
          /\ rows[j][MATCH_COUNT] \notin {<<"0">>, <<"1">>} =>
                rows[j][CONTACT_NAME] = <<>>

\* several named candidates whose phones agree: the phone cell is filled,
\* the contact_name cell is empty
C2_Witness ==
    /\ RowWritten
    /\ Matches > 1
    /\ results[1].name # <<>>
    /\ rows[idx][PHONE_NUMBER] # <<>>
    /\ rows[idx][CONTACT_NAME] = <<>>

\* C3: with more than one candidate, P being all their phones in order and
\* K the set of the non-empty normalized keys of P, the phone cell is
\* PickDisplay(P, k) when K = {k}, and empty when K is empty or has two or
\* more elements.
C3_MultiCandidatePhone ==
    (RowWritten /\ Matches > 1) =>
        LET P == AllPhones(results)
            K == {NormalizePhone(P[i]) : i \in 1..Len(P)} \ {<<>>}
        IN  rows[idx][PHONE_NUMBER] =
                IF \E k \in K : K = {k}
                THEN PickDisplay(P, CHOOSE k \in K : TRUE)
                ELSE <<>>

\* two candidates with one key between them and a phone without digits, no
\* phone in local form: the cell is "0" followed by the key
C3_Witness ==
    /\ RowWritten
    /\ Matches > 1
    /\ \E i \in 1..Len(AllPhones(results)) :
           NormalizePhone(AllPhones(results)[i]) = <<>>
    /\ FirstLocal(AllPhones(results)) = <<"none">>
    /\ rows[idx][PHONE_NUMBER] = P_LOCAL

\* the header as the program reads it has a column "name"
HeaderHasName == \E i \in DOMAIN in_header : NormalizeField(in_header[i]) = NAME

EarlyErrors == {"no_name", "bad_source", "no_client_id", "auth_failed"}

\* C9: without a name column, with an invalid source, or (google) without a
\* client id or without a token, process_csv raises before any lookup and
\* before the output file is opened; the name column is checked before the
\* token is asked for.
C9_EarlyFailure ==
    /\ err \in EarlyErrors =>
          (ppc = "raised" /\ exit_code = 2 /\ lookups = <<>> /\ idx = 0
             /\ ~out_file.opened)
    /\ err = "no_name" => ~auth_started
    /\ auth_started => HeaderHasName
    /\ (ppc # "start" /\ ~HeaderHasName) => err = "no_name"
    /\ (ppc \notin {"start", "source"} /\ HeaderHasName
           /\ source \notin {"apple", "google"}) => err = "bad_source"
    /\ (ppc \notin {"start", "source"} /\ HeaderHasName
           /\ source = "google" /\ client_id = "") => err = "no_client_id"
    /\ err = "no_client_id" => (client_id = "" /\ ~auth_started)
    /\ (ppc \notin {"start", "source", "auth"} /\ HeaderHasName
           /\ source = "google" /\ client_id # "" /\ token = "") =>
          err = "auth_failed"
    /\ (lookups # <<>> \/ idx > 0 \/ out_file.opened) =>
          /\ HeaderHasName
          /\ source \in {"apple", "google"}
          /\ source = "google" => (client_id # "" /\ token # "")

\* a google run with rows to process, stopped at the header before any
\* token was asked for
C9_Witness ==
    /\ err = "no_name"
    /\ source = "google"
    /\ in_rows # <<>>
    /\ ~auth_started
    /\ lookups = <<>>
    /\ ~out_file.opened

\* the rows among the first n of the input whose trimmed name is not empty
Named(n) == {j \in 1..n : Strip(RowGet(in_rows[j], NAME)) # <<>>}

\* C10: when the lookup of a row raises, no later row is looked up, the
\* error leaves process_csv and the output file is not written; the output
\* file is written only after every row was resolved, and then it holds all
\* rows.
C10_AbortOnSourceError ==
    /\ err = "lookup" =>
          /\ ppc = "raised"
          /\ exit_code = 2
          /\ ~out_file.opened
          /\ idx < Len(in_rows)
          /\ Cardinality(Named(idx + 1)) = Len(lookups)
    /\ out_file.opened =>
          /\ idx = Len(in_rows)
          /\ Len(lookups) = Cardinality(Named(Len(in_rows)))
          /\ Len(out_file.rows) = Len(in_rows)

\* the trimmed names of the first n input rows, the empty ones left out
RECURSIVE TrimmedNames(_)
TrimmedNames(n) ==
    IF n = 0 THEN <<>>
    ELSE LET q == Strip(RowGet(in_rows[n], NAME))
         IN  IF q = <<>> THEN TrimmedNames(n - 1)
             ELSE Append(TrimmedNames(n - 1), q)

\* the rows the loop has been through, the one whose lookup raised included
RowsEntered == IF err = "lookup" THEN idx + 1 ELSE idx

\* the lookups are the non-empty trimmed names of the rows gone through, in
\* input order; a row with an empty trimmed name is written "", "", "0"
LookupsFollowRows ==
    /\ lookups = TrimmedNames(RowsEntered)
    /\ \A j \in 1..idx :
          Strip(RowGet(in_rows[j], NAME)) = <<>> =>
              /\ rows[j][PHONE_NUMBER] = <<>>
              /\ rows[j][CONTACT_NAME] = <<>>
              /\ rows[j][MATCH_COUNT] = <<"0">>

\* C11: the lookups made are exactly the non-empty trimmed names of the
\* input rows, in input order, one per such row; a row with an empty trimmed
\* name gets no lookup and "", "", 0; the output has exactly one row per
\* input row, in input order.
C11_SequentialRows ==
    /\ LookupsFollowRows
    /\ out_file.opened =>
          /\ lookups = TrimmedNames(Len(in_rows))
          /\ Len(out_file.rows) = Len(in_rows)
          /\ \A j \in 1..Len(out_file.rows), c \in 1..Len(fieldnames) :
                fieldnames[c] = NAME =>
                    out_file.rows[j][c] = RowGet(in_rows[j], NAME)

ENRICHMENT == <<PHONE_NUMBER, CONTACT_NAME, MATCH_COUNT>>

\* those of the three enrichment columns that the header h lacks, in order
Lacking(h) ==
    LET Absent(c) == c \notin Range(h)
    IN  SelectSeq(ENRICHMENT, Absent)

\* in every row written to the file, an enrichment column holds the row's new
\* result and every other column holds the value the input row had
CellsKept ==
    \A j \in 1..Len(out_file.rows), c \in 1..Len(out_file.header) :
        LET col == out_file.header[c]
        IN  IF col \in Range(ENRICHMENT)
            THEN /\ out_file.rows[j][c] = rows[j][col]
                 /\ col = MATCH_COUNT => out_file.rows[j][c] \in {Str(n) : n \in 0..MaxCands}
                 /\ Strip(RowGet(in_rows[j], NAME)) = <<>> =>
                        out_file.rows[j][c] = (IF col = MATCH_COUNT THEN <<"0">> ELSE <<>>)
            ELSE out_file.rows[j][c] = RowGet(in_rows[j], col)

\* C12 as stated: the output header is the input header, in its order,
\* followed by those of phone number, contact_name, match_count it lacks,
\* once each and in that order; an enrichment column of the input keeps its
\* place and is overwritten in every row; other columns are unchanged.
C12_OutputColumns ==
    out_file.opened =>
        /\ out_file.header = in_header \o Lacking(in_header)
        /\ CellsKept

\* C12 as amended: the same, of the input header with every field name
\* stripped of surrounding white space and then of leading byte-order marks.
C12_OutputColumnsNormalized ==
    out_file.opened =>
        /\ out_file.header =
              NormalizeHeader(in_header) \o Lacking(NormalizeHeader(in_header))
        /\ \A c \in 1..Len(in_header) :
              out_file.header[c] = LStripBom(Strip(in_header[c]))
        /\ CellsKept

\* a written file whose input already had a contact_name column, first in
\* the header, now overwritten in a row that was looked up
C12_Witness ==
    /\ ppc = "done"
    /\ in_header # <<>>
    /\ NormalizeField(in_header[1]) = CONTACT_NAME
    /\ Len(out_file.header) = Len(in_header) + 2
    /\ out_file.rows # <<>>
    /\ RowGet(in_rows[1], CONTACT_NAME) = <<"o">>
    /\ out_file.rows[1][1] \notin {<<"o">>, <<>>}

RECURSIVE DigitsOf(_)
DigitsOf(str) ==
    IF str = <<>> THEN <<>>
    ELSE IF Head(str) \in {"0", "1", "2", "3", "4", "5", "6", "7", "8", "9"}
         THEN <<Head(str)>> \o DigitsOf(Tail(str))
         ELSE DigitsOf(Tail(str))

\* the last 9 elements of a sequence, all of them when there are fewer
Last9(d) ==
    IF Len(d) <= 9 THEN d ELSE [i \in 1..9 |-> d[Len(d) - 9 + i]]

\* C14: _normalize_phone_for_compare returns the digits of its argument, the
\* last 9 of them when there are 9 or more, all of them when there are 1 to
\* 8, the empty string when there are none; the key has at most 9 digits,
\* and two strings whose digits end in the same 9 digits get the same key.
C14_PhoneNormalizer ==
    pure_fn = "normalize" =>
        LET d == DigitsOf(pure_arg[1])
        IN  /\ Len(d) >= 9 =>
                  (Len(pure_ret) = 9
                     /\ \A i \in 1..9 : pure_ret[i] = d[Len(d) - 9 + i])
            /\ Len(d) \in 1..8 => pure_ret = d
            /\ Len(d) = 0 => pure_ret = <<>>
            /\ Len(pure_ret) <= 9
            /\ pure_prev # <<>> =>
                  LET e == DigitsOf(pure_prev[1])
                  IN  (Len(d) >= 9 /\ Len(e) >= 9 /\ Last9(d) = Last9(e))
                          => pure_ret = pure_prev[2]

\* two strings with different punctuation and country-code prefixes, more
\* than 9 digits each, that get one key
C14_Witness ==
    /\ pure_fn = "normalize"
    /\ pure_prev # <<>>
    /\ pure_prev[1] # pure_arg[1]
    /\ DigitsOf(pure_prev[1]) # DigitsOf(pure_arg[1])
    /\ Len(DigitsOf(pure_arg[1])) > 9
    /\ Len(DigitsOf(pure_prev[1])) > 9
    /\ pure_ret = pure_prev[2]
    /\ Len(pure_ret) = 9

\* the places of the phones whose trimmed text starts with "0"
LocalForms(phones) ==
    {i \in 1..Len(phones) : Strip(phones[i]) # <<>> /\ Strip(phones[i])[1] = "0"}

\* C15: _pick_display_phone_from_candidates(phones, key) returns the trimmed
\* text of the first phone whose trimmed text starts with "0" if there is
\* one; otherwise "0" + key if key has exactly 9 characters; otherwise the
\* trimmed first phone, or the empty string if there are no phones.
C15_DisplaySelection ==
    pure_fn = "pick" =>
        LET phones == pure_arg[1]
            key == pure_arg[2]
            L == LocalForms(phones)
        IN  /\ L # {} => pure_ret = Strip(phones[CHOOSE i \in L : \A j \in L : i <= j])
            /\ (L = {} /\ Len(key) = 9) => pure_ret = <<"0">> \o key
            /\ (L = {} /\ Len(key) # 9 /\ phones # <<>>) => pure_ret = Strip(phones[1])
            /\ (L = {} /\ Len(key) # 9 /\ phones = <<>>) => pure_ret = <<>>

\* a 9-character key and two phones, the second of which is the only one in
\* local form: the selector returns it, not "0" + key
C15_Witness ==
    /\ pure_fn = "pick"
    /\ Len(pure_arg[1]) = 2
    /\ LocalForms(pure_arg[1]) = {2}
    /\ Len(pure_arg[2]) = 9
    /\ pure_ret = Strip(pure_arg[1][2])
    /\ pure_ret # <<"0">> \o pure_arg[2]

(***************************************************************************)
(* Claims about credential acquisition, checked under SpecDeviceFair.      *)
(***************************************************************************)
\* the waits before the last one did not exceed the deadline
WaitWithinOneSleep == waited - last_sleep <= deadline

\* C16: whatever the device-code response and the token endpoint's answers,
\* the function returns a token or raises, after polling waits that exceed
\* the deadline by no more than one polling sleep; it never polls for ever.
C16_BoundedAcquisition ==
    /\ []WaitWithinOneSleep
    /\ (dpc = "poll" ~> dpc \in {"returned", "raised"})

(***************************************************************************)
(* Claims about the window, checked under SpecLimiter.                     *)
(***************************************************************************)
\* C17: _rate_record(n) with n <= 0 leaves the window unchanged; with n > 0
\* it appends the one entry (current time, n) at the tail and leaves every
\* other entry and their order unchanged; so every entry of a reachable
\* window has a strictly positive count.
C17_RecordFrame ==
    /\ [](\A i \in 1..Len(window) : window[i].count > 0)
    /\ [][lpc' = "recorded" =>
            /\ call'.n <= 0 => window' = window
            /\ call'.n > 0 =>
                  /\ Len(window') = Len(window) + 1
                  /\ \A i \in 1..Len(window) : window'[i] = window[i]
                  /\ window'[Len(window')] = [ts |-> clock, count |-> call'.n]
            /\ clock' = clock]_vars

\* a count recorded behind two older entries
C17_Witness ==
    /\ lpc = "recorded"
    /\ call.n > 0
    /\ Len(window) = 3
    /\ window[3] = [ts |-> clock, count |-> call.n]
    /\ window[1].ts < window[2].ts
    /\ window[2].ts < clock

\* C18: under a clock that never goes back the timestamps of the window
\* never decrease from head to tail; so after _rate_prune(now) the window
\* holds exactly the entries it held with a timestamp > now - 60 (an entry
\* exactly 60 s old is evicted), in their order, and _rate_current_total(now)
\* is the sum of the counts of exactly those entries.
C18_OrderedWindow ==
    /\ [](\A i \in 1..(Len(window) - 1) : window[i].ts <= window[i + 1].ts)
    /\ [][lpc' \in {"pruned", "totalled"} =>
            LET Young(e) == e.ts > clock - 60
            IN  /\ window' = SelectSeq(window, Young)
                /\ lpc' = "totalled" =>
                      last_total' = CountsIn(window, clock - 60, clock)]_vars

\* a total taken over a window from which two entries were evicted, one of
\* them exactly 60 s old, and in which one entry stayed
C18_Witness ==
    /\ lpc = "totalled"
    /\ Len(window) = 1
    /\ last_total = window[1].count
    /\ clock >= 80
    /\ window[1].ts = clock - 40

(***************************************************************************)
(* A further claim about process_csv, checked under Spec.                  *)
(***************************************************************************)
\* C19: when a lookup returns more than one candidate and the phone cell
\* written is not empty, the normalized key of the phone cell is the one
\* non-empty normalized key of the candidates' phones, also when some phones
\* have no digits or fewer than 9.
C19_PhoneAgreesWithKey ==
    (RowWritten /\ Matches > 1 /\ rows[idx][PHONE_NUMBER] # <<>>) =>
        LET P == AllPhones(results)
            K == {NormalizePhone(P[i]) : i \in 1..Len(P)} \ {<<>>}
        IN  K = {NormalizePhone(rows[idx][PHONE_NUMBER])}

(***************************************************************************)
(* Claims about the pages of a lookup, checked under SpecPagesFair.        *)
(***************************************************************************)
\* the candidates of the items, page after page, of the pages ps: an item
\* gives a candidate when it has a display name or a phone
RECURSIVE Concatenated(_)
Concatenated(ps) ==
    IF ps = <<>> THEN <<>>
    ELSE LET items == ps[Len(ps)].items
             Kept(it) == DisplayName(it.names) # <<>> \/ PhonesList(it.values) # <<>>
             kept == SelectSeq(items, Kept)
         IN  Concatenated(SubSeq(ps, 1, Len(ps) - 1))
                 \o [i \in 1..Len(kept) |->
                        [name |-> DisplayName(kept[i].names),
                         phones |-> PhonesList(kept[i].values)]]

\* C20: one call receives at most 100 pages even when every page carries a
\* nextPageToken, requests nothing after the first page without one, returns
\* or raises in the end when only finitely many answers are 429, and returns
\* the candidates of the items of the received pages that have a display
\* name or a phone, in page order.  An item has a display name when its
\* first non-empty displayName is not blank, and a phone when one of its
\* phone values is not empty.
C20_PageCap ==
    /\ [](Len(fetched) <= 100)
    /\ [](\A i \in 1..(Len(fetched) - 1) : fetched[i].next)
    /\ [](spc = "done" =>
            /\ fetched # <<>>
            /\ ~fetched[Len(fetched)].next \/ Len(fetched) = 100
            /\ out = Concatenated(fetched))
    /\ (spc = "page" ~> spc \in {"done", "raised"})

\* the call ended by the cap: 100 pages received, the last one with a
\* nextPageToken, some of the items left out, after a sleep of the limiter
C20_Witness ==
    /\ spc = "done"
    /\ Len(fetched) = 100
    /\ fetched[100].next
    /\ out # <<>>
    /\ \E i \in 1..100 : Len(PageCandidates(fetched[i].items)) < Len(fetched[i].items)
    /\ clock >= WINDOW_SEC

====
